---- MODULE Spec2Model ----
(***************************************************************************)
(* Hall availability calendars of the booking site:                        *)
(*   Calendar  (single hall, 36-month horizon)  Calendar.tsx lines 28-218   *)
(*   HallList  (all halls,    2-month horizon)  Calendar.tsx lines 251-469  *)
(*                                                                         *)
(* A session is one mounted component.  Its React state is                 *)
(* availabilityData, currentMonth, currentYear; its last render fixed the  *)
(* day buttons and the disabled flags of the Previous/Next buttons.        *)
(*                                                                         *)
(* Dates.  A local calendar day is <<year, month, day>> with the month     *)
(* 0-based as in the JS Date API.  A date string "YYYY-MM-DD" is           *)
(* <<year, month, day>> with the month 1-based, as toISOString prints it.  *)
(* The clock `now` is a local day and the time elapsed since its local     *)
(* midnight (ms = 0: exactly midnight; ms = 1: any later instant of the    *)
(* day).  tz is the local offset from UTC in minutes (fixed: no DST).      *)
(***************************************************************************)
EXTENDS Integers, Sequences, FiniteSets, TLC

VARIABLES now, tz, repo, kind, hallId, currentMonth, currentYear,
          renderedAt, availabilityData, inflight, selected, loaded

vars == <<now, tz, repo, kind, hallId, currentMonth, currentYear,
          renderedAt, availabilityData, inflight, selected, loaded>>

\* ------------------------------------------------------------------ bounds

\* day rollovers the clock may make in one run
MaxDays == 2
\* months a cursor left behind by the clock may be walked back
MaxBehind == 2
\* availability requests one session may have in flight
MaxInflight == 2

\* ------------------------------------------------------- program constants

CalendarHorizon == 36
HallListHorizon == 2

Sessions == {1, 2}
Halls == {1, 2}
TZOffsets == {-300, 0, 330}

\* ------------------------------------------------------------ the JS Date

IsLeap(y) == (y % 4 = 0 /\ y % 100 # 0) \/ y % 400 = 0

\* day-of-month of new Date(year, month + 1, 0)
MonthLength(y, m) ==
    CASE m \in {0, 2, 4, 6, 7, 9, 11} -> 31
      [] m \in {3, 5, 8, 10} -> 30
      [] OTHER -> IF IsLeap(y) THEN 29 ELSE 28

\* date.setDate(date.getDate() + 1)
NextDay(D) ==
    IF D[3] < MonthLength(D[1], D[2]) THEN <<D[1], D[2], D[3] + 1>>
    ELSE IF D[2] < 11 THEN <<D[1], D[2] + 1, 1>>
    ELSE <<D[1] + 1, 0, 1>>

PrevDay(D) ==
    IF D[3] > 1 THEN <<D[1], D[2], D[3] - 1>>
    ELSE IF D[2] > 0 THEN <<D[1], D[2] - 1, MonthLength(D[1], D[2] - 1)>>
    ELSE <<D[1] - 1, 11, 31>>

\* order of two calendar days (or of two date strings)
DateLT(a, b) ==
    \/ a[1] < b[1]
    \/ a[1] = b[1] /\ a[2] < b[2]
    \/ a[1] = b[1] /\ a[2] = b[2] /\ a[3] < b[3]

\* `date >= new Date()` for date = local midnight of day D
MidnightGE(D, t) == DateLT(t.date, D) \/ (D = t.date /\ t.ms = 0)

\* date.toISOString().split("T")[0] for date = local midnight of day D:
\* the UTC calendar day of that instant, which east of UTC is the day before
ISODate(D, off) ==
    LET u == IF off > 0 THEN PrevDay(D) ELSE D
    IN  <<u[1], u[2] + 1, u[3]>>

\* new Date().getMonth(), new Date().getFullYear()
GetMonth(t) == t.date[2]
GetFullYear(t) == t.date[1]

\* ------------------------------------------------------ getDaysInMonth

LocalDays(month, year, t) ==
    SelectSeq([d \in 1..MonthLength(year, month) |-> <<year, month, d>>],
              LAMBDA D : MidnightGE(D, t))

getDaysInMonth(month, year, t, off) ==
    LET kept == LocalDays(month, year, t)
    IN  [i \in 1..Len(kept) |-> ISODate(kept[i], off)]

Range(f) == {f[i] : i \in DOMAIN f}

\* ------------------------------------------------------------ navigation

Horizon(k) == IF k = "Calendar" THEN CalendarHorizon ELSE HallListHorizon

\* the early return of handlePrevMonth, also the Previous button's disabled
AtMinMonth(m, y, t) == m = GetMonth(t) /\ y = GetFullYear(t)

\* the early return of handleNextMonth, also the Next button's disabled
AtMaxMonth(m, y, t, n) ==
    LET maxMonth == GetMonth(t) + n
        maxYear  == GetFullYear(t) + (maxMonth \div 12)
    IN  m = maxMonth % 12 /\ y = maxYear

handlePrevMonth(m, y, t) ==
    IF AtMinMonth(m, y, t) THEN <<m, y>>
    ELSE IF m = 0 THEN <<11, y - 1>>
    ELSE <<m - 1, y>>

\* mutant: the step from December forgets to advance the year
handleNextMonth_NoCarry(m, y, t, n) ==
    IF AtMaxMonth(m, y, t, n) THEN <<m, y>>
    ELSE IF m = 11 THEN <<0, y>>
    ELSE <<m + 1, y>>

handleNextMonth(m, y, t, n) ==
    IF AtMaxMonth(m, y, t, n) THEN <<m, y>>
    ELSE IF m = 11 THEN <<0, y + 1>>
    ELSE <<m + 1, y>>

\* months since year 0, to compare cursors and clock
MonthIdx(m, y) == 12 * y + m

\* ------------------------------------------------ availability records

\* The backend holds at most one row per (hall_id, date) (the data model's
\* uniqueness of AvailabilityRecord keys); a row is
\* [hall_id, date (a date string), reason, is_booked].
RowFor(rows, h, d) == {r \in rows : r.hall_id = h /\ r.date = d}

\* result.data of GET /api/halls/availability: the date is sent as an ISO
\* date-time, the hall as a nested object
WireItem(r) ==
    [date      |-> [ymd |-> r.date, time |-> "T00:00:00.000Z"],
     reason    |-> r.reason,
     is_booked |-> r.is_booked,
     hall      |-> [hall_id |-> r.hall_id]]

ResponseData(rows) == {WireItem(r) : r \in rows}

\* item.date.split("T")[0]
SplitT(dt) == dt.ymd

\* item.reason || "Available"
OrAvailable(reason) == IF reason = "" THEN "Available" ELSE reason

\* the .map callback of both fetchAvailability functions
MapItem(item) ==
    [date     |-> SplitT(item.date),
     reason   |-> OrAvailable(item.reason),
     isBooked |-> item.is_booked]

\* Calendar: result.data.filter(hall_id === hallId).map(...)
dataForHall(data, h) ==
    {MapItem(item) : item \in {i \in data : i.hall.hall_id = h}}

\* HallList: groupedData[hall_id].push(...), keyed by the halls present
groupedData(data) ==
    [h \in {i.hall.hall_id : i \in data} |->
        {MapItem(item) : item \in {i \in data : i.hall.hall_id = h}}]

\* the value of `availability` when find() returns undefined
Undefined == [date |-> <<0, 0, 0>>, reason |-> "", isBooked |-> FALSE]

\* records.find((data) => data.date === day)
Find(records, day) ==
    IF \E r \in records : r.date = day
    THEN CHOOSE r \in records : r.date = day
    ELSE Undefined

\* availability?.isBooked and availability?.reason
IsBookedOpt(av) == av # Undefined /\ av.isBooked
ReasonOpt(av) == IF av = Undefined THEN "undefined" ELSE av.reason

\* ------------------------------------------------------- the day buttons

\* Calendar: disabled={availability?.isBooked || availability?.reason === "On hold"}
CalendarDisabled(av) == IsBookedOpt(av) \/ ReasonOpt(av) = "On hold"

\* Calendar: !availability?.isBooked && availability?.reason !== "On hold" && onDateSelect(...)
CalendarOnClick(av) == ~IsBookedOpt(av) /\ ReasonOpt(av) # "On hold"

\* HallList: disabled={availability?.isBooked}
HallListDisabled(av) == IsBookedOpt(av)

\* HallList: !availability?.isBooked && onDateSelect(...)
HallListOnClick(av) == ~IsBookedOpt(av)

\* the list the last render mapped to day buttons
daysInMonth(s) ==
    getDaysInMonth(currentMonth[s], currentYear[s], renderedAt[s], tz)

\* the `availability` of the button of hall h and date string day
Availability(s, h, day) ==
    IF kind[s] = "Calendar" THEN Find(availabilityData[s], day)
    ELSE IF h \in DOMAIN availabilityData[s]
         THEN Find(availabilityData[s][h], day)
         ELSE Undefined

\* the halls session s draws buttons for
HallsOf(s) == IF kind[s] = "Calendar" THEN {hallId[s]} ELSE Halls

\* the button of (h, day) is enabled and its onClick guard passes
ButtonOpen(s, h, day) ==
    LET av == Availability(s, h, day)
    IN  IF kind[s] = "Calendar"
        THEN ~CalendarDisabled(av) /\ CalendarOnClick(av)
        ELSE ~HallListDisabled(av) /\ HallListOnClick(av)

\* a click on the button of (h, day) reaches onDateSelect(h, day): the last
\* render drew the button, and it is open
Selectable(s, h, day) ==
    /\ kind[s] # "none"
    /\ h \in HallsOf(s)
    /\ day \in Range(daysInMonth(s))
    /\ ButtonOpen(s, h, day)

\* ----------------------------------------------------- inputs of a run

RECURSIVE AddDays(_, _)
AddDays(D, k) == IF k = 0 THEN D ELSE AddDays(NextDay(D), k - 1)

\* local days a run may start on: before a year end, the scenario day of
\* the booking window, before the end of a leap February
NavStartDays == {<<2024, 11, 30>>, <<2025, 0, 15>>, <<2024, 1, 28>>}
BookStartDays == {<<2025, 0, 15>>}
StartDays == NavStartDays \cup BookStartDays

\* the day on which the bounded clock stops
LastDays == {AddDays(D, MaxDays) : D \in StartDays}

\* date strings whose buttons are clicked: the first days after a start
NavClickDates ==
    {ISODate(AddDays(D, k), 0) : D \in NavStartDays, k \in 0..1}
BookDates == {ISODate(AddDays(D, 1), 0) : D \in BookStartDays}

\* what the backend may hold for one (hall, date)
RowValues ==
    {[reason |-> "Wedding", is_booked |-> TRUE],
     [reason |-> "On hold", is_booked |-> FALSE],
     [reason |-> "Wedding", is_booked |-> FALSE],
     [reason |-> "",        is_booked |-> FALSE]}

Kinds == {"Calendar", "HallList"}

\* a call of fetchAvailability that waits at `await fetch(...)` (line 41):
\* hallId is the prop its closure captured, answered tells whether the
\* backend's response has arrived, data is result.data of that response
Call(h) == [hallId |-> h, answered |-> FALSE, data |-> {}]

\* useState initial values, the first render, and the fetch the mount effect
\* starts (lines 29-37, 61-63; 252-260, 291-293)
Mounted(t, ks) ==
    /\ kind = ks
    /\ hallId = [s \in Sessions |-> IF ks[s] = "Calendar" THEN 1 ELSE 0]
    /\ currentMonth = [s \in Sessions |-> GetMonth(t)]
    /\ currentYear = [s \in Sessions |-> GetFullYear(t)]
    /\ renderedAt = [s \in Sessions |-> t]
    /\ availabilityData =
          [s \in Sessions |-> IF ks[s] = "HallList" THEN <<>> ELSE {}]
    /\ inflight = [s \in Sessions |->
          IF ks[s] = "Calendar" THEN <<Call(1)>>
          ELSE IF ks[s] = "HallList" THEN <<Call(0)>> ELSE <<>>]
    /\ selected = [s \in Sessions |-> <<>>]
    /\ loaded = [s \in Sessions |-> FALSE]

\* every set of rows with at most one row per (hall, date) of BookDates
RepoStates ==
    {rows \in SUBSET {[hall_id |-> h, date |-> d,
                       reason |-> v.reason, is_booked |-> v.is_booked] :
                         h \in Halls, d \in BookDates, v \in RowValues} :
        \A h \in Halls, d \in BookDates : Cardinality(RowFor(rows, h, d)) <= 1}

\* one session and the backend, which other parties keep writing; the
\* session is opened during the day in a zone at UTC (the clock and the
\* zone vary under SpecNav and SpecRace)
Init ==
    \E D \in BookStartDays, k1 \in Kinds :
        /\ now = [date |-> D, ms |-> 1]
        /\ tz = 0
        /\ repo = {}
        /\ Mounted([date |-> D, ms |-> 1], (1 :> k1) @@ (2 :> "none"))

\* two sessions open on the same backend, whose rows other parties left
InitRace ==
    \E D \in BookStartDays, m \in {0, 1}, off \in TZOffsets, k2 \in Kinds,
       rows \in RepoStates :
        /\ now = [date |-> D, ms |-> m]
        /\ tz = off
        /\ repo = rows
        /\ Mounted([date |-> D, ms |-> m], (1 :> "Calendar") @@ (2 :> k2))

\* one session left open while the clock runs
InitNav ==
    \E D \in NavStartDays, m \in {0, 1}, off \in TZOffsets, k1 \in Kinds :
        /\ now = [date |-> D, ms |-> m]
        /\ tz = off
        /\ repo = {}
        /\ Mounted([date |-> D, ms |-> m], (1 :> k1) @@ (2 :> "none"))

\* ---------------------------------------------------------------- actions

\* the wall clock advances: past midnight, or to the next midnight
Tick ==
    /\ \/ now.ms = 0 /\ now' = [now EXCEPT !.ms = 1]
       \/ /\ now.ms = 1
          /\ now.date \notin LastDays
          /\ now' = [date |-> NextDay(now.date), ms |-> 0]
    /\ UNCHANGED <<tz, repo, kind, hallId, currentMonth, currentYear,
                   renderedAt, availabilityData, inflight, selected, loaded>>

\* what other parties write for hall h: every kind of row for the hall a
\* Calendar is mounted with, bookings for the other hall
WrittenValues(h) ==
    IF h = 1 THEN RowValues ELSE {v \in RowValues : v.is_booked}

\* another party's booking, hold or cancellation reaches the backend
ServerWrite(h, d, v) ==
    /\ repo' = (repo \ RowFor(repo, h, d)) \cup
               {[hall_id |-> h, date |-> d,
                 reason |-> v.reason, is_booked |-> v.is_booked]}
    /\ repo' # repo
    /\ UNCHANGED <<now, tz, kind, hallId, currentMonth, currentYear,
                   renderedAt, availabilityData, inflight, selected, loaded>>

ServerDelete(h, d) ==
    /\ RowFor(repo, h, d) # {}
    /\ repo' = repo \ RowFor(repo, h, d)
    /\ UNCHANGED <<now, tz, kind, hallId, currentMonth, currentYear,
                   renderedAt, availabilityData, inflight, selected, loaded>>

RemoveAt(q, i) == [j \in 1..(Len(q) - 1) |-> IF j < i THEN q[j] ELSE q[j + 1]]

\* mutant: the Calendar adds the records of the response to the snapshot
\* it holds instead of replacing the snapshot
Fetched_Merged(s, captured, data) ==
    IF kind[s] = "Calendar"
    THEN availabilityData[s] \cup dataForHall(data, captured)
    ELSE groupedData(data)

\* the state setAvailabilityData receives from a 200 response
Fetched(s, captured, data) ==
    IF kind[s] = "Calendar" THEN dataForHall(data, captured)
    ELSE groupedData(data)

\* `await fetch(...)` of call i resolves (line 41): the backend has answered
\* from the rows it holds now; the call waits at `await response.json()`
FetchAnswered(s, i) ==
    /\ kind[s] # "none"
    /\ i \in DOMAIN inflight[s]
    /\ ~inflight[s][i].answered
    /\ inflight' = [inflight EXCEPT ![s][i] =
          [@ EXCEPT !.answered = TRUE, !.data = ResponseData(repo)]]
    /\ UNCHANGED <<now, tz, repo, kind, hallId, currentMonth, currentYear,
                   renderedAt, availabilityData, selected, loaded>>

\* `await response.json()` of call i resolves with statusCode 200 (line
\* 42): lines 44-52 store the records of the response that had arrived
FetchOk(s, i) ==
    /\ kind[s] # "none"
    /\ i \in DOMAIN inflight[s]
    /\ inflight[s][i].answered
    /\ availabilityData' = [availabilityData EXCEPT
          ![s] = Fetched(s, inflight[s][i].hallId, inflight[s][i].data)]
    /\ loaded' = [loaded EXCEPT ![s] = TRUE]
    /\ renderedAt' = [renderedAt EXCEPT ![s] = now]
    /\ inflight' = [inflight EXCEPT ![s] = RemoveAt(@, i)]
    /\ UNCHANGED <<now, tz, repo, kind, hallId, currentMonth, currentYear,
                   selected>>

\* call i ends with another statusCode (else branch), or fetch or json
\* throws (catch): console.error only
FetchFail(s, i) ==
    /\ kind[s] # "none"
    /\ i \in DOMAIN inflight[s]
    /\ inflight' = [inflight EXCEPT ![s] = RemoveAt(@, i)]
    /\ UNCHANGED <<now, tz, repo, kind, hallId, currentMonth, currentYear,
                   renderedAt, availabilityData, selected, loaded>>

\* the parent passes another hallId to a Calendar: it renders again, and
\* the effect on [fetchAvailability] starts a fetch that captures h
SetHall(s, h) ==
    /\ kind[s] = "Calendar"
    /\ h # hallId[s]
    /\ Len(inflight[s]) < MaxInflight
    /\ hallId' = [hallId EXCEPT ![s] = h]
    /\ renderedAt' = [renderedAt EXCEPT ![s] = now]
    /\ inflight' = [inflight EXCEPT ![s] = Append(@, Call(h))]
    /\ UNCHANGED <<now, tz, repo, kind, currentMonth, currentYear,
                   availabilityData, selected, loaded>>

\* a click on the day button of (h, day): onDateSelect(h, day) is called
\* when the button is enabled and its onClick guard passes; selected[s]
\* holds the arguments of the session's latest onDateSelect call
DayClick(s, h, day) ==
    /\ Selectable(s, h, day)
    /\ selected' = [selected EXCEPT ![s] = <<h, day>>]
    /\ UNCHANGED <<now, tz, repo, kind, hallId, currentMonth, currentYear,
                   renderedAt, availabilityData, inflight, loaded>>

\* the Previous button as last rendered, then handlePrevMonth at the clock
PrevDisabled(s) == AtMinMonth(currentMonth[s], currentYear[s], renderedAt[s])

PrevMonth(s) ==
    LET c == handlePrevMonth(currentMonth[s], currentYear[s], now)
    IN  /\ kind[s] # "none"
        /\ ~PrevDisabled(s)
        /\ MonthIdx(currentMonth[s], currentYear[s]) >
              MonthIdx(GetMonth(now), GetFullYear(now)) - MaxBehind
        /\ currentMonth' = [currentMonth EXCEPT ![s] = c[1]]
        /\ currentYear' = [currentYear EXCEPT ![s] = c[2]]
        /\ renderedAt' = [renderedAt EXCEPT ![s] =
              IF c = <<currentMonth[s], currentYear[s]>> THEN @ ELSE now]
        /\ UNCHANGED <<now, tz, repo, kind, hallId, availabilityData,
                       inflight, selected, loaded>>

\* the Next button as last rendered, then handleNextMonth at the clock
NextDisabled(s) ==
    AtMaxMonth(currentMonth[s], currentYear[s], renderedAt[s], Horizon(kind[s]))

NextMonth(s) ==
    LET c == handleNextMonth(currentMonth[s], currentYear[s], now,
                             Horizon(kind[s]))
    IN  /\ kind[s] # "none"
        /\ ~NextDisabled(s)
        /\ currentMonth' = [currentMonth EXCEPT ![s] = c[1]]
        /\ currentYear' = [currentYear EXCEPT ![s] = c[2]]
        /\ renderedAt' = [renderedAt EXCEPT ![s] =
              IF c = <<currentMonth[s], currentYear[s]>> THEN @ ELSE now]
        /\ UNCHANGED <<now, tz, repo, kind, hallId, availabilityData,
                       inflight, selected, loaded>>

\* ---------------------------------------------------------- specifications

Next ==
    \/ \E h \in Halls, d \in BookDates :
          \E v \in WrittenValues(h) : ServerWrite(h, d, v)
    \/ \E h \in Halls, d \in BookDates : ServerDelete(h, d)
    \/ \E s \in Sessions, i \in 1..MaxInflight : FetchAnswered(s, i)
    \/ \E s \in Sessions, i \in 1..MaxInflight : FetchOk(s, i)
    \/ \E s \in Sessions, i \in 1..MaxInflight : FetchFail(s, i)
    \/ \E s \in Sessions, h \in Halls : SetHall(s, h)
    \/ \E s \in Sessions, h \in Halls, day \in BookDates : DayClick(s, h, day)

Spec == Init /\ [][Next]_vars

NextNav ==
    \/ Tick
    \/ \E s \in Sessions : PrevMonth(s)
    \/ \E s \in Sessions : NextMonth(s)
    \/ \E s \in Sessions, i \in 1..MaxInflight : FetchAnswered(s, i)
    \/ \E s \in Sessions, i \in 1..MaxInflight : FetchOk(s, i)
    \/ \E s \in Sessions, h \in Halls, day \in NavClickDates :
          DayClick(s, h, day)

SpecNav == InitNav /\ [][NextNav]_vars

NextRace ==
    \/ \E s \in Sessions, i \in 1..MaxInflight : FetchAnswered(s, i)
    \/ \E s \in Sessions, i \in 1..MaxInflight : FetchOk(s, i)
    \/ \E s \in Sessions, i \in 1..MaxInflight : FetchFail(s, i)
    \/ \E s \in Sessions, h \in Halls, day \in BookDates : DayClick(s, h, day)

SpecRace == InitRace /\ [][NextRace]_vars

\* ------------------------------------------------------ claims: notions

\* the status the Calendar's day button shows for `availability` (the
\* className ternary: isBooked, else reason === "On hold", else free)
StatusOf(av) ==
    IF IsBookedOpt(av) THEN "Booked"
    ELSE IF ReasonOpt(av) = "On hold" THEN "OnHold"
    ELSE "Available"

\* a local calendar day written as a date string
DateStr(D) == <<D[1], D[2] + 1, D[3]>>

\* the month (0-based) and year that lie n months after the month of t
MonthAfter(t, n) ==
    LET i == MonthIdx(GetMonth(t), GetFullYear(t)) + n
    IN  <<i % 12, i \div 12>>

\* allowedDates(today, horizon): every date string from today through the
\* last day of the month n months after today's month
Window(t, n) ==
    UNION {{DateStr(<<MonthAfter(t, k)[2], MonthAfter(t, k)[1], d>>) :
               d \in {e \in 1..MonthLength(MonthAfter(t, k)[2],
                                           MonthAfter(t, k)[1]) :
                        k > 0 \/ e >= t.date[3]}} :
           k \in 0..n}

\* the dates offered at clock t over every cursor position from the month
\* of today to the month n months later
Offered(t, off, n) ==
    UNION {Range(getDaysInMonth(MonthAfter(t, k)[1], MonthAfter(t, k)[2],
                                t, off)) : k \in 0..n}

Live == {s \in Sessions : kind[s] # "none"}

\* ------------------------------------------------------------------ C1

\* C1: of two sessions that have each read an availability snapshot and
\* attempt the same (hallId, date) against the same backend rows, at most
\* one succeeds: onDateSelect is not called for a (hallId, date) that the
\* other session's onDateSelect was already called for.
C1_AtMostOneSucceeds ==
    [][\A s1 \in Live, s2 \in Live :
          (s1 # s2 /\ loaded[s1] /\ loaded[s2]
              /\ selected'[s1] # selected[s1])
             => selected'[s1] # selected[s2]]_vars

\* ------------------------------------------------------------------ C2

\* C2: on both surfaces onDateSelect(hallId, date) is called only for a
\* (hallId, date) whose status in the session's snapshot is neither Booked
\* nor OnHold.
C2_TakenDateRejected ==
    [][\A s \in Live :
          selected'[s] # selected[s] =>
              StatusOf(Availability(s, selected'[s][1], selected'[s][2]))
                 = "Available"]_vars

\* ------------------------------------------------------------------ C3

\* C3: onDateSelect is called only for a date that lies in
\* allowedDates(today, horizon) at the moment of the call.
C3_SelectedInWindowNow ==
    [][\A s \in Live :
          selected'[s] # selected[s] =>
              selected'[s][2] \in Window(now, Horizon(kind[s]))]_vars

\* ------------------------------------------------------------------ C4

\* C4: a session whose every availability fetch has failed (none succeeded,
\* none pending) offers no date as selectable.
C4_FailedFetchNotAvailable ==
    \A s \in Live :
        (~loaded[s] /\ inflight[s] = <<>>) =>
            \A h \in HallsOf(s), day \in BookDates : ~Selectable(s, h, day)

\* ------------------------------------------------------------------ C5

\* C5: whatever the clock and the cursor, getDaysInMonth returns no date
\* before today.
C5_NoPastDate ==
    \A s \in Live :
        \A day \in Range(getDaysInMonth(currentMonth[s], currentYear[s],
                                        now, tz)) :
            ~DateLT(day, DateStr(now.date))

\* ------------------------------------------------------------------ C6

\* C6: over the cursor positions from today's month to the month N months
\* later, the dates offered are exactly today through the last day of that
\* month.
C6_OffersWholeWindow ==
    \A s \in Live :
        Offered(now, tz, Horizon(kind[s])) = Window(now, Horizon(kind[s]))

\* ------------------------------------------------------------------ C7

\* C7: a navigation call never moves the cursor to a month before the month
\* of the current today, nor after the month N months later.
C7_NavigationClamped ==
    [][\A s \in Live :
          <<currentMonth'[s], currentYear'[s]>> #
              <<currentMonth[s], currentYear[s]>> =>
            /\ MonthIdx(currentMonth'[s], currentYear'[s]) >=
                  MonthIdx(GetMonth(now), GetFullYear(now))
            /\ MonthIdx(currentMonth'[s], currentYear'[s]) <=
                  MonthIdx(GetMonth(now), GetFullYear(now))
                     + Horizon(kind[s])]_vars

\* ------------------------------------------------------------------ C8

\* k calls of handlePrevMonth at clock t (a month is always in 0..11: the
\* test only makes each call's result be computed before the next call)
RECURSIVE PrevTimes(_, _, _, _)
PrevTimes(k, m, y, t) ==
    IF k = 0 \/ m \notin 0..11 THEN <<m, y>>
    ELSE LET c == handlePrevMonth(m, y, t) IN PrevTimes(k - 1, c[1], c[2], t)

\* k calls of handleNextMonth at clock t
RECURSIVE NextTimes(_, _, _, _, _)
NextTimes(k, m, y, t, n) ==
    IF k = 0 \/ m \notin 0..11 THEN <<m, y>>
    ELSE LET c == handleNextMonth(m, y, t, n)
         IN  NextTimes(k - 1, c[1], c[2], t, n)

\* more calls than any reachable cursor is away from either end
ManyCalls == CalendarHorizon + MaxBehind + 2

\* C8: from every reachable cursor, repeated prevMonth calls (where the
\* Previous button takes a click) end on the month of today, and repeated
\* nextMonth calls end on the month N months after it.
C8_NavigationSaturates ==
    \A s \in Live :
        /\ ~PrevDisabled(s) =>
              PrevTimes(ManyCalls, currentMonth[s], currentYear[s], now)
                 = MonthAfter(now, 0)
        /\ NextTimes(ManyCalls, currentMonth[s], currentYear[s], now,
                     Horizon(kind[s]))
              = MonthAfter(now, Horizon(kind[s]))

\* ------------------------------------------------------------------ C9

\* C9: in the Calendar a booked record is not selectable, a
\* record with a reason and the booked flag false is not selectable, and a
\* date without a record is selectable.
C9_ReasonMeansOnHold ==
    \A s \in Live :
        kind[s] = "Calendar" =>
            \A day \in BookDates :
                LET av == Availability(s, hallId[s], day)
                IN  /\ IsBookedOpt(av) => ~Selectable(s, hallId[s], day)
                    /\ (av # Undefined /\ ~av.isBooked
                           /\ av.reason # "Available")
                          => ~Selectable(s, hallId[s], day)
                    /\ av = Undefined => Selectable(s, hallId[s], day)

\* ------------------------------------------------------------------ C10

\* C10: the step in which onDateSelect is called starts one availability
\* fetch of the session.
C10_SelectionRefreshes ==
    [][\A s \in Live :
          selected'[s] # selected[s] =>
              Len(inflight'[s]) = Len(inflight[s]) + 1]_vars

\* ------------------------------------------------------------------ C11

\* C11: a Calendar and a HallList session that have read the same
\* availability records, stand on the same cursor and were rendered at the
\* same today offer the same dates, and accept or reject the selection of
\* every (hallId, date) of the Calendar's hall identically.  (The cursor
\* moves of both are handlePrevMonth and handleNextMonth, whose code differs
\* between the surfaces in the horizon only.)
C11_SurfacesAgree ==
    \A s1 \in Live, s2 \in Live :
        (kind[s1] = "Calendar" /\ kind[s2] = "HallList"
            /\ loaded[s1] /\ loaded[s2]
            /\ currentMonth[s1] = currentMonth[s2]
            /\ currentYear[s1] = currentYear[s2]
            /\ renderedAt[s1] = renderedAt[s2])
           => /\ daysInMonth(s1) = daysInMonth(s2)
              /\ \A day \in Range(daysInMonth(s1)) :
                    ButtonOpen(s1, hallId[s1], day)
                       <=> ButtonOpen(s2, hallId[s1], day)

\* ------------------------------------------------------------------ C12

\* the records the day-button lookup of session s searches for hall h
RecordsOf(s, h) ==
    IF kind[s] = "Calendar" THEN availabilityData[s]
    ELSE IF h \in DOMAIN availabilityData[s] THEN availabilityData[s][h]
         ELSE {}

\* C12: in every step the records a session's day-button lookup searches
\* are either, for every hall, the ones it searched before the step, or,
\* for every hall, exactly the records of the response one pending request
\* has received (the rows of the hall the request was made for in the
\* Calendar, the rows of each hall in HallList), never some of both; and a
\* fetch that fails leaves the records as they were.
C12_SnapshotReplacedWhole ==
    [][\A s \in Live :
          /\ \/ \A h \in Halls : RecordsOf(s, h)' = RecordsOf(s, h)
             \/ \E i \in DOMAIN inflight[s] :
                   /\ inflight[s][i].answered
                   /\ \A h \in Halls :
                         RecordsOf(s, h)' =
                            dataForHall(inflight[s][i].data,
                                        IF kind[s] = "Calendar"
                                        THEN inflight[s][i].hallId ELSE h)
          /\ \A i \in DOMAIN inflight[s] :
                FetchFail(s, i) =>
                   \A h \in Halls : RecordsOf(s, h)' = RecordsOf(s, h)]_vars

\* a Calendar whose second fetch (after a change of hall) has completed and
\* that holds records
C12_Witness ==
    \E s \in Live :
        /\ kind[s] = "Calendar" /\ hallId[s] = 2
        /\ loaded[s] /\ inflight[s] = <<>>
        /\ availabilityData[s] # {}

\* ------------------------------------------------------------------ C13

\* C13: when the last pending fetch of a Calendar completes and changes the
\* snapshot, the snapshot it leaves contains only records of the hall the
\* Calendar displays (rows of hallId in the response that completed): a
\* response to a request made for an earlier hallId does not overwrite it.
C13_SnapshotOfDisplayedHall ==
    [][\A s \in Live :
          (/\ kind[s] = "Calendar"
           /\ inflight[s] # <<>> /\ inflight'[s] = <<>>
           /\ availabilityData'[s] # availabilityData[s])
             => availabilityData'[s] \subseteq
                   dataForHall(inflight[s][1].data, hallId'[s])]_vars

\* ------------------------------------------------------------------ C14

\* a nextMonth call and a prevMonth call on the cursor of session s at the
\* clock: each one that does not take its early return moves the cursor by
\* exactly one month, across the year boundary too
CallsExact(s) ==
    LET m  == currentMonth[s]
        y  == currentYear[s]
        nx == handleNextMonth(m, y, now, Horizon(kind[s]))
        pv == handlePrevMonth(m, y, now)
    IN  /\ m \in 0..11
        /\ ~AtMaxMonth(m, y, now, Horizon(kind[s])) =>
              /\ MonthIdx(nx[1], nx[2]) = MonthIdx(m, y) + 1
              /\ nx[1] \in 0..11
              /\ m = 11 => nx = <<0, y + 1>>
        /\ ~AtMinMonth(m, y, now) =>
              /\ MonthIdx(pv[1], pv[2]) = MonthIdx(m, y) - 1
              /\ pv[1] \in 0..11
              /\ m = 0 => pv = <<11, y - 1>>

\* nextMonth followed by prevMonth, both at the clock, returns the cursor
\* of session s
RoundTrip(s) ==
    LET nx == handleNextMonth(currentMonth[s], currentYear[s], now,
                              Horizon(kind[s]))
    IN  handlePrevMonth(nx[1], nx[2], now) =
           <<currentMonth[s], currentYear[s]>>

NonMaximal(s) ==
    ~AtMaxMonth(currentMonth[s], currentYear[s], now, Horizon(kind[s]))

\* C14 as stated: in every reachable state month is in 0..11, a call that
\* is not saturated moves the cursor by exactly one month, and nextMonth
\* followed by prevMonth from a non-maximal cursor returns the original
\* (month, year).
C14_RoundTripFromAnyCursor ==
    \A s \in Live : CallsExact(s) /\ (NonMaximal(s) => RoundTrip(s))

\* C14, amended: in every reachable state month is in 0..11 and a call that
\* is not saturated moves the cursor by exactly one month; every step of
\* the Next and Previous buttons taken away from the maximal (minimal)
\* month moves the cursor by exactly one month forward (back); and
\* nextMonth followed by prevMonth returns the original (month, year) from
\* a non-maximal cursor that is not before the month of today.
C14_MonthStepping ==
    /\ [](\A s \in Live :
            /\ CallsExact(s)
            /\ (NonMaximal(s)
                   /\ MonthIdx(currentMonth[s], currentYear[s]) >=
                         MonthIdx(GetMonth(now), GetFullYear(now)))
                  => RoundTrip(s))
    /\ [][\A s \in Live :
            /\ (NextMonth(s) /\ NonMaximal(s)) =>
                  MonthIdx(currentMonth'[s], currentYear'[s]) =
                     MonthIdx(currentMonth[s], currentYear[s]) + 1
            /\ (PrevMonth(s)
                   /\ ~AtMinMonth(currentMonth[s], currentYear[s], now)) =>
                  MonthIdx(currentMonth'[s], currentYear'[s]) =
                     MonthIdx(currentMonth[s], currentYear[s]) - 1]_vars

\* the Next button has carried the cursor over a year end while today is
\* still in the year before
C14_Witness ==
    \E s \in Live :
        /\ currentMonth[s] = 0
        /\ currentYear[s] = GetFullYear(now) + 1

\* ------------------------------------------------------------------ C15

\* C15: each date string the last render of a session drew a button for is
\* the date string of the local day that was tested against today, and
\* denotes a day of the cursor's (month, year); no date string drawn under
\* the cursor month is drawn under the month after it too.
C15_StringIsDayOfCursorMonth ==
    \A s \in Live :
        LET m    == currentMonth[s]
            y    == currentYear[s]
            kept == LocalDays(m, y, renderedAt[s])
            strs == daysInMonth(s)
            nm   == IF m = 11 THEN <<0, y + 1>> ELSE <<m + 1, y>>
        IN  /\ \A i \in DOMAIN strs :
                  /\ strs[i] = DateStr(kept[i])
                  /\ strs[i][1] = y
                  /\ strs[i][2] = m + 1
            /\ Range(strs) \cap
                  Range(getDaysInMonth(nm[1], nm[2], renderedAt[s], tz)) = {}

====
